---- MODULE Spec2Model ----
(***************************************************************************)
(* ZT-3 daily breakout screener: the fetch retry loop                      *)
(* (data_fetcher.fetch_historical_data), the per-instrument screening      *)
(* (screener_logic.apply_screening), the sequential screening loop of      *)
(* main.run_screener and the thread pool of                                *)
(* utils/generate_csv_report.generate_csv_report.                          *)
(*                                                                         *)
(* Numbers.  Prices and volumes are integers.  A derived float that need   *)
(* not be an integer (a mean, an EMA, a percentage, a ratio) is an exact   *)
(* rational <<n, d>> with d > 0; its NaN is <<NaN, 1>> and an unset        *)
(* (None) value <<None, 1>>.  Scalar NaN and None are the sentinels NaN    *)
(* and None.                                                               *)
(***************************************************************************)
EXTENDS Integers, Sequences, FiniteSets, TLC

(* ------------------------------------------------------------------ *)
(* Bounds of the model.  The four periods are read from config.yaml   *)
(* by screener_logic.py:10-18 (defaults 50/50/50/20); they are scaled *)
(* down here so that series of MaxLen bars cover both the too-short   *)
(* and the long-enough case, with bars outside every window.          *)
(* ------------------------------------------------------------------ *)
MaxStocks == 2
MaxCsvStocks == 4
MaxLen == 4
LOOKBACK_PERIOD == 2
AVG_VOLUME_LOOKBACK == 2
EMA_PERIOD_LONG == 3
EMA_PERIOD_SHORT == 2

(* ------------------------------------------------------------------ *)
(* Program constants.                                                 *)
(* ------------------------------------------------------------------ *)
MIN_CLOSE_PRICE == 25
MAX_PRICE == 1500
PRICE_DROP_FROM_HIGH_PERCENT_MAX == 10
PRICE_DROP_FROM_HIGH_PERCENT_MIN == 0
VOLUME_SURGE_MULTIPLIER_MIN == <<2, 1>>
VOLUME_SURGE_MULTIPLIER_MAX == <<5, 2>>
max_retries == 3
max_workers == 3
CSV_MIN_PRICE == 25
CSV_MAX_PRICE == 1500

NaN == -9999
None == -9998

(* ------------------------------------------------------------------ *)
(* Exact rationals <<n, d>>, d > 0.                                   *)
(* ------------------------------------------------------------------ *)
Abs(x) == IF x < 0 THEN -x ELSE x

RECURSIVE GCD(_, _)
GCD(a, b) == IF b = 0 THEN a ELSE GCD(b, a % b)

Norm(n, d) ==
    LET g == GCD(Abs(n), Abs(d))
    IN  IF g = 0 THEN <<0, 1>> ELSE <<n \div g, d \div g>>

NaNR == <<NaN, 1>>
NoneR == <<None, 1>>
IsNaR(r) == r[1] = NaN
RLt(a, b) == a[1] * b[2] < b[1] * a[2]
REq(a, b) == a[1] * b[2] = b[1] * a[2]

RECURSIVE Pow(_, _)
Pow(b, e) == IF e = 0 THEN 1 ELSE b * Pow(b, e - 1)

MaxOf(S) == CHOOSE x \in S : \A y \in S : y <= x
MinOf(S) == CHOOSE x \in S : \A y \in S : x <= y

(* pd.isna of a scalar *)
IsNa(x) == x = NaN

(* ------------------------------------------------------------------ *)
(* DataFrame helpers: a frame is a sequence of bars                   *)
(* [timestamp, high, low, close, volume].                             *)
(* ------------------------------------------------------------------ *)
RECURSIVE InsertByTs(_, _)
InsertByTs(sorted, bar) ==
    IF sorted = <<>> THEN <<bar>>
    ELSE IF bar.timestamp < Head(sorted).timestamp
         THEN <<bar>> \o sorted
         ELSE <<Head(sorted)>> \o InsertByTs(Tail(sorted), bar)

RECURSIVE SortByTs(_)
(* df.sort_values('timestamp').reset_index(drop=True) *)
SortByTs(df) ==
    IF df = <<>> THEN <<>>
    ELSE InsertByTs(SortByTs(SubSeq(df, 1, Len(df) - 1)), df[Len(df)])

(* the slice left out: the whole frame is the lookback window *)
ILocLast_WholeFrame(df, n) == df

(* df.iloc[-n:] *)
ILocLast(df, n) == SubSeq(df, IF Len(df) - n + 1 < 1 THEN 1 ELSE Len(df) - n + 1, Len(df))

(* the window taken with the latest bar in it: df.iloc[-n:] *)
ILocBeforeLast_IncludesLatest(df, n) == ILocLast(df, n)

(* df.iloc[-(n + 1):-1] *)
ILocBeforeLast(df, n) ==
    SubSeq(df, IF Len(df) - n < 1 THEN 1 ELSE Len(df) - n, Len(df) - 1)

(* Series.max(): NaN entries are skipped; NaN when nothing is left *)
ColMax(vals) ==
    LET S == {vals[k] : k \in DOMAIN vals} \ {NaN}
    IN  IF S = {} THEN NaN ELSE MaxOf(S)

(* Series.min(): NaN entries are skipped; NaN when nothing is left *)
ColMin(vals) ==
    LET S == {vals[k] : k \in DOMAIN vals} \ {NaN}
    IN  IF S = {} THEN NaN ELSE MinOf(S)

RECURSIVE SumSkipNa(_)
SumSkipNa(vals) ==
    IF vals = <<>> THEN 0
    ELSE (IF Head(vals) = NaN THEN 0 ELSE Head(vals)) + SumSkipNa(Tail(vals))

(* Series.mean(): the mean of the entries that are not NaN *)
ColMean(vals) ==
    LET cnt == Cardinality({k \in DOMAIN vals : vals[k] # NaN})
    IN  IF cnt = 0 THEN NaNR ELSE Norm(SumSkipNa(vals), cnt)

Col(df, f) == [k \in DOMAIN df |-> df[k][f]]

(* One step of Series.ewm(span=span, adjust=False).mean(): st.w is the   *)
(* running weighted average (NaNR before the first observation), st.e    *)
(* the number of decays since the last observation, so that pandas'      *)
(* old_wt is ((span-1)/(span+1))^e and new_wt is alpha = 2/(span+1).     *)
EwmStep(st, cur, span) ==
    IF IsNaR(st.w)
    THEN IF cur = NaN THEN st ELSE [w |-> <<cur, 1>>, e |-> 0]
    ELSE IF cur = NaN THEN [w |-> st.w, e |-> st.e + 1]
         ELSE LET e  == st.e + 1
                  ow == Pow(span - 1, e)
                  nw == 2 * Pow(span + 1, e - 1)
              IN  [w |-> Norm(ow * st.w[1] + nw * cur * st.w[2], st.w[2] * (ow + nw)),
                   e |-> 0]

RECURSIVE EwmFold(_, _, _)
EwmFold(st, vals, span) ==
    IF vals = <<>> THEN st
    ELSE EwmFold(EwmStep(st, Head(vals), span), Tail(vals), span)

(* the last value of df[col].ewm(span, adjust=False).mean() *)
EwmLast(vals, span) == EwmFold([w |-> NaNR, e |-> 0], vals, span).w

(* ------------------------------------------------------------------ *)
(* screener_logic.apply_screening                                     *)
(* ------------------------------------------------------------------ *)
(* A frame handed to apply_screening: None, or the bars of a DataFrame *)
NoneDf == [none |-> TRUE, bars |-> <<>>]
Frame(bars) == [none |-> FALSE, bars |-> bars]

TOTAL_RULES(enable) == IF enable THEN 7 ELSE 6

(* the reason string: its leading tag and, for "Failed: ...", the     *)
(* numbers of the rules listed, in the order they are joined          *)
Reason(tag, rules) == [tag |-> tag, rules |-> rules]

InitResults(symbol, enable) ==
    LET base == [symbol |-> symbol,
                 close |-> None, period_high |-> None, period_low |-> None,
                 volume |-> None, avg_volume_50d |-> NoneR, timestamp |-> None,
                 passed_rule1 |-> FALSE, passed_rule2 |-> FALSE,
                 passed_rule3 |-> FALSE, passed_rule4 |-> FALSE,
                 passed_rule5 |-> FALSE, passed_rule6 |-> FALSE,
                 rules_passed_count |-> 0,
                 metrics |-> <<>>,
                 failed_overall |-> TRUE,
                 reason |-> Reason("None", <<>>)]
    IN  IF enable THEN base @@ [passed_rule7 |-> FALSE] ELSE base

(* the length test made against the lookback period alone *)
required_candles_LookbackOnly == LOOKBACK_PERIOD

(* line 65 *)
required_candles ==
    MaxOf({LOOKBACK_PERIOD, AVG_VOLUME_LOOKBACK + 1, EMA_PERIOD_LONG, EMA_PERIOD_SHORT})

(* lines 94-95: the mean volume of the sorted frame's bars before the latest *)
avg_volume_lookback_val(df) ==
    ColMean(Col(ILocBeforeLast(df, AVG_VOLUME_LOOKBACK), "volume"))

(* the values apply_screening derives from the sorted frame (lines 77-95) *)
Indicators(bars) ==
    LET df == SortByTs(bars)
        latest_candle == df[Len(df)]
        closes == Col(df, "close")
    IN  [latest_close |-> latest_candle.close,
         latest_volume |-> latest_candle.volume,
         latest_timestamp |-> latest_candle.timestamp,
         latest_ema_long |-> EwmLast(closes, EMA_PERIOD_LONG),
         latest_ema_short |-> EwmLast(closes, EMA_PERIOD_SHORT),
         period_high |-> ColMax(Col(ILocLast(df, LOOKBACK_PERIOD), "high")),
         period_low |-> ColMin(Col(ILocLast(df, LOOKBACK_PERIOD), "low")),
         avg_volume_lookback_val |-> avg_volume_lookback_val(df)]

(* line 107: the NaN/zero guard *)
CriticalDataInvalid(ind) ==
    \/ IsNa(ind.latest_close) \/ IsNa(ind.latest_volume)
    \/ IsNa(ind.period_high) \/ IsNa(ind.period_low)
    \/ IsNaR(ind.avg_volume_lookback_val)
    \/ IsNaR(ind.latest_ema_long) \/ IsNaR(ind.latest_ema_short)
    \/ ind.period_high = 0 \/ ind.period_low = 0
    \/ ind.avg_volume_lookback_val[1] = 0

(* line 115 *)
PriceDropPct(ind) ==
    IF ind.period_high > 0
    THEN Norm(100 * (ind.period_high - ind.latest_close), ind.period_high)
    ELSE <<0, 1>>

(* line 116 *)
VolumeRatio(ind) ==
    IF ind.avg_volume_lookback_val[1] > 0
    THEN Norm(ind.latest_volume * ind.avg_volume_lookback_val[2],
              ind.avg_volume_lookback_val[1])
    ELSE <<0, 1>>

(* the comparisons of lines 129-161 written with <= and >= *)
RuleCondition_NonStrict(n, ind) ==
    CASE n = 1 -> ~RLt(<<PRICE_DROP_FROM_HIGH_PERCENT_MAX, 1>>, PriceDropPct(ind))
      [] n = 2 -> ~RLt(PriceDropPct(ind), <<PRICE_DROP_FROM_HIGH_PERCENT_MIN, 1>>)
      [] n = 3 -> ~RLt(<<ind.latest_close, 1>>, ind.latest_ema_long)
      [] n = 4 -> ind.latest_close >= MIN_CLOSE_PRICE
      [] n = 5 -> /\ ~RLt(VolumeRatio(ind), VOLUME_SURGE_MULTIPLIER_MIN)
                  /\ ~RLt(VOLUME_SURGE_MULTIPLIER_MAX, VolumeRatio(ind))
      [] n = 6 -> ~RLt(ind.latest_ema_short, ind.latest_ema_long)
      [] n = 7 -> ind.latest_close <= MAX_PRICE

(* the conditions of lines 129-161, rule by rule *)
RuleCondition(n, ind) ==
    CASE n = 1 -> RLt(PriceDropPct(ind), <<PRICE_DROP_FROM_HIGH_PERCENT_MAX, 1>>)
      [] n = 2 -> RLt(<<PRICE_DROP_FROM_HIGH_PERCENT_MIN, 1>>, PriceDropPct(ind))
      [] n = 3 -> RLt(ind.latest_ema_long, <<ind.latest_close, 1>>)
      [] n = 4 -> ind.latest_close > MIN_CLOSE_PRICE
      [] n = 5 -> /\ RLt(VOLUME_SURGE_MULTIPLIER_MIN, VolumeRatio(ind))
                  /\ RLt(VolumeRatio(ind), VOLUME_SURGE_MULTIPLIER_MAX)
      [] n = 6 -> RLt(ind.latest_ema_long, ind.latest_ema_short)
      [] n = 7 -> ind.latest_close <= MAX_PRICE

(* the rules chained with elif: a rule is looked at only when every   *)
(* rule before it passed                                              *)
WithFlags_ShortCircuit(res, ind, enable, upto) ==
    LET on(n) == n <= upto /\ \A j \in 1..n : RuleCondition(j, ind)
        r6 == [res EXCEPT !.passed_rule1 = on(1), !.passed_rule2 = on(2),
                          !.passed_rule3 = on(3), !.passed_rule4 = on(4),
                          !.passed_rule5 = on(5), !.passed_rule6 = on(6)]
    IN  IF enable THEN [r6 EXCEPT !.passed_rule7 = on(7)] ELSE r6

(* results after the flag assignments of rules 1..upto (lines 128-167); *)
(* the local rules_passed_count is not yet stored in results            *)
WithFlags(res, ind, enable, upto) ==
    LET on(n) == n <= upto /\ RuleCondition(n, ind)
        r6 == [res EXCEPT !.passed_rule1 = on(1), !.passed_rule2 = on(2),
                          !.passed_rule3 = on(3), !.passed_rule4 = on(4),
                          !.passed_rule5 = on(5), !.passed_rule6 = on(6)]
    IN  IF enable THEN [r6 EXCEPT !.passed_rule7 = on(7)] ELSE r6

(* rule 7 applied whatever ENABLE_MAX_PRICE_LIMIT says *)
AppliedRules_AlwaysSeven(enable) == 1..7

(* lines 158-167: rule 7 is applied only when enabled *)
AppliedRules(enable) == IF enable THEN 1..7 ELSE 1..6

(* the local counter rules_passed_count after all applicable rules *)
CountPassed(ind, enable) ==
    Cardinality({n \in AppliedRules(enable) : RuleCondition(n, ind)})

(* lines 189-199 *)
AllRulesPassed(res, enable) ==
    /\ res.passed_rule1 /\ res.passed_rule2 /\ res.passed_rule3
    /\ res.passed_rule4 /\ res.passed_rule5 /\ res.passed_rule6
    /\ (enable => res.passed_rule7)

(* lines 207-215: the failed rules, in the order they are appended *)
FailedRules(res, enable) ==
    LET flag(n) == CASE n = 1 -> res.passed_rule1 [] n = 2 -> res.passed_rule2
                     [] n = 3 -> res.passed_rule3 [] n = 4 -> res.passed_rule4
                     [] n = 5 -> res.passed_rule5 [] n = 6 -> res.passed_rule6
                     [] n = 7 -> IF enable THEN res.passed_rule7 ELSE TRUE
        keep(n) == ~flag(n)
    IN  SelectSeq(<<1, 2, 3, 4, 5, 6, 7>>, keep)

(* lines 201-219 *)
FinalCheck(res, enable) ==
    IF AllRulesPassed(res, enable)
    THEN [res EXCEPT !.failed_overall = FALSE,
                     !.reason = Reason("Passed all criteria", <<>>)]
    ELSE [res EXCEPT !.failed_overall = TRUE,
                     !.reason = Reason("Failed", FailedRules(res, enable))]

(* lines 221-227: the handler of the try block *)
ExceptHandler(res) ==
    [res EXCEPT !.reason = Reason("Error", <<>>), !.failed_overall = TRUE]

(* what leaves apply_screening when an exception escapes it *)
Raised == [raised |-> TRUE]

(* Where an exception is raised inside apply_screening:               *)
(*   none   nowhere                                                   *)
(*   calc   in lines 77-95, before results.update                     *)
(*   rule4  at line 144, after the flags of rules 1-3 were assigned   *)
(*   log    in lines 173-184, after line 170 stored the count         *)
(*   outer  in the try block and again in its handler (lines 222-225),*)
(*          so that the exception leaves apply_screening              *)
ExcPoints == {"none", "calc", "rule4", "log", "outer"}

(* lines 97-104 *)
UpdateLatest(res, ind) ==
    [res EXCEPT !.close = ind.latest_close,
                !.period_high = ind.period_high,
                !.period_low = ind.period_low,
                !.volume = ind.latest_volume,
                !.avg_volume_50d = ind.avg_volume_lookback_val,
                !.timestamp = ind.latest_timestamp]

(* lines 118-126 *)
Metrics(ind) ==
    [price_drop_pct |-> PriceDropPct(ind),
     close_price |-> ind.latest_close,
     ema_50 |-> ind.latest_ema_long,
     ema_20 |-> ind.latest_ema_short,
     volume |-> ind.latest_volume,
     avg_volume_50d |-> ind.avg_volume_lookback_val,
     volume_ratio |-> VolumeRatio(ind)]

(* the metrics map of lines 118-126 filled before the guard of line 107 *)
ScreenTry_MetricsBeforeGuard(res0, bars, enable, excAt) ==
    LET ind == Indicators(bars)
        res1 == UpdateLatest(res0, ind)
        res2 == [res1 EXCEPT !.metrics = Metrics(ind)]
        res3 == [WithFlags(res2, ind, enable, 7)
                     EXCEPT !.rules_passed_count = CountPassed(ind, enable)]
    IN  IF excAt = "outer" THEN Raised
        ELSE IF excAt = "calc" THEN ExceptHandler(res0)
        ELSE IF CriticalDataInvalid(ind)
             THEN [res2 EXCEPT !.reason = Reason("NaN/Zero in critical data", <<>>)]
        ELSE IF excAt = "rule4" THEN ExceptHandler(WithFlags(res2, ind, enable, 3))
        ELSE IF excAt = "log" THEN ExceptHandler(res3)
        ELSE FinalCheck(res3, enable)

(* the guard of line 107 left out: the rules run on whatever was computed *)
ScreenTry_NoNaNCheck(res0, bars, enable, excAt) ==
    LET ind == Indicators(bars)
        res1 == UpdateLatest(res0, ind)
        res2 == [res1 EXCEPT !.metrics = Metrics(ind)]
        res3 == [WithFlags(res2, ind, enable, 7)
                     EXCEPT !.rules_passed_count = CountPassed(ind, enable)]
    IN  IF excAt = "outer" THEN Raised
        ELSE IF excAt = "calc" THEN ExceptHandler(res0)
        ELSE IF excAt = "rule4" THEN ExceptHandler(WithFlags(res2, ind, enable, 3))
        ELSE IF excAt = "log" THEN ExceptHandler(res3)
        ELSE FinalCheck(res3, enable)

(* lines 76-219, the try block, and its handler *)
ScreenTry(res0, bars, enable, excAt) ==
    LET ind == Indicators(bars)
        res1 == UpdateLatest(res0, ind)
        res2 == [res1 EXCEPT !.metrics = Metrics(ind)]
        res3 == [WithFlags(res2, ind, enable, 7)
                     EXCEPT !.rules_passed_count = CountPassed(ind, enable)]
    IN  IF excAt = "outer" THEN Raised
        ELSE IF excAt = "calc" THEN ExceptHandler(res0)
        ELSE IF CriticalDataInvalid(ind)
             THEN [res1 EXCEPT !.reason = Reason("NaN/Zero in critical data", <<>>)]
        ELSE IF excAt = "rule4" THEN ExceptHandler(WithFlags(res2, ind, enable, 3))
        ELSE IF excAt = "log" THEN ExceptHandler(res3)
        ELSE FinalCheck(res3, enable)

apply_screening(df, symbol, enable, excAt) ==
    LET results == InitResults(symbol, enable)
    IN  IF df.none \/ df.bars = <<>>
        THEN [results EXCEPT !.reason = Reason("No data", <<>>)]
        ELSE IF Len(df.bars) < required_candles
        THEN [results EXCEPT !.reason = Reason("Insufficient data", <<>>)]
        ELSE ScreenTry(results, df.bars, enable, excAt)

(* ------------------------------------------------------------------ *)
(* data_fetcher.fetch_historical_data: the retry loop                 *)
(* ------------------------------------------------------------------ *)
(* What one requests.get can lead to:                                 *)
(*   ok           200, status 'success', a non-empty candle list      *)
(*   http429      raise_for_status raises HTTPError with status 429   *)
(*   http_error   raise_for_status raises HTTPError, another status   *)
(*   exception    a transport exception (ConnectionError, bad JSON)   *)
(*   timeout      requests.exceptions.Timeout                         *)
(*   status_fail  200 with status other than 'success'                *)
(*   no_candles   200, 'success', no candles                          *)
(*   raise        an exception that leaves fetch_historical_data      *)
Responses ==
    {"ok", "http429", "http_error", "exception", "timeout",
     "status_fail", "no_candles", "raise"}

(* One invocation: pc is request (about to call requests.get), sleep   *)
(* (inside time.sleep(delay)), returned or raised.  nreq, sleeps and   *)
(* resps record the requests made, the delays slept and the responses  *)
(* seen; log is the class of the last message logged.                  *)
NewCall ==
    [pc |-> "request", attempt |-> 0, nreq |-> 0, sleeps |-> <<>>,
     resps |-> <<>>, ret |-> NoneDf, log |-> "fetching"]

ReturnNone(c, msg) == [c EXCEPT !.pc = "returned", !.ret = NoneDf, !.log = msg]

(* a backoff that grows by one second per attempt *)
BackoffDelay_Linear(attempt) == attempt + 1

(* line 234 *)
BackoffDelay(attempt) == Pow(2, attempt)

(* a timed-out request handled like a rate limit: sleep, then retry *)
FetchRequest_RetriesTimeout(c, resp, candles) ==
    LET c1 == [c EXCEPT !.nreq = @ + 1, !.resps = Append(@, resp)]
    IN  CASE resp = "ok" ->
                 [c1 EXCEPT !.pc = "returned", !.ret = Frame(SortByTs(candles)),
                            !.log = "success"]
          [] resp \in {"http429", "timeout"} ->
                 [c1 EXCEPT !.pc = "sleep",
                            !.sleeps = Append(@, BackoffDelay(c.attempt)),
                            !.log = "http429"]
          [] resp = "http_error" -> ReturnNone(c1, "http_error")
          [] resp = "exception" -> ReturnNone(c1, "unexpected_error")
          [] resp = "status_fail" -> ReturnNone(c1, "api_failed")
          [] resp = "no_candles" -> ReturnNone(c1, "no_candles")
          [] resp = "raise" -> [c1 EXCEPT !.pc = "raised", !.log = "raised"]

(* the 429 test of line 233 left out: every HTTP error is retried *)
FetchRequest_RetriesHttpErrors(c, resp, candles) ==
    LET c1 == [c EXCEPT !.nreq = @ + 1, !.resps = Append(@, resp)]
    IN  CASE resp = "ok" ->
                 [c1 EXCEPT !.pc = "returned", !.ret = Frame(SortByTs(candles)),
                            !.log = "success"]
          [] resp \in {"http429", "http_error"} ->
                 [c1 EXCEPT !.pc = "sleep",
                            !.sleeps = Append(@, BackoffDelay(c.attempt)),
                            !.log = "http429"]
          [] resp \in {"exception", "timeout"} -> ReturnNone(c1, "unexpected_error")
          [] resp = "status_fail" -> ReturnNone(c1, "api_failed")
          [] resp = "no_candles" -> ReturnNone(c1, "no_candles")
          [] resp = "raise" -> [c1 EXCEPT !.pc = "raised", !.log = "raised"]

(* lines 195-243: one pass of the loop body, up to its return, its     *)
(* raise or its call of time.sleep                                     *)
FetchRequest(c, resp, candles) ==
    LET c1 == [c EXCEPT !.nreq = @ + 1, !.resps = Append(@, resp)]
    IN  CASE resp = "ok" ->
                 [c1 EXCEPT !.pc = "returned", !.ret = Frame(SortByTs(candles)),
                            !.log = "success"]
          [] resp = "http429" ->
                 [c1 EXCEPT !.pc = "sleep",
                            !.sleeps = Append(@, BackoffDelay(c.attempt)),
                            !.log = "http429"]
          [] resp = "http_error" -> ReturnNone(c1, "http_error")
          [] resp \in {"exception", "timeout"} -> ReturnNone(c1, "unexpected_error")
          [] resp = "status_fail" -> ReturnNone(c1, "api_failed")
          [] resp = "no_candles" -> ReturnNone(c1, "no_candles")
          [] resp = "raise" -> [c1 EXCEPT !.pc = "raised", !.log = "raised"]

(* a loop that retries for as long as the upstream answers 429 *)
FetchWake_RetriesForever(c) == [c EXCEPT !.pc = "request"]

(* exhausted retries answered with an empty frame instead of None *)
FetchWake_ReturnsEmptyFrame(c) ==
    IF c.attempt + 1 < max_retries
    THEN [c EXCEPT !.pc = "request", !.attempt = @ + 1]
    ELSE [c EXCEPT !.attempt = @ + 1, !.pc = "returned", !.ret = Frame(<<>>),
                   !.log = "max_retries_exceeded"]

(* lines 236-237 and 194, 244-245: the sleep ends, continue, and the   *)
(* for loop either starts the next attempt or is exhausted             *)
FetchWake(c) ==
    IF c.attempt + 1 < max_retries
    THEN [c EXCEPT !.pc = "request", !.attempt = @ + 1]
    ELSE ReturnNone([c EXCEPT !.attempt = @ + 1], "max_retries_exceeded")

CallInFlight(c) == c.pc \in {"request", "sleep"}

(* ------------------------------------------------------------------ *)
(* Candle data the upstream can answer with.                          *)
(* ------------------------------------------------------------------ *)
Shape(h, l, c, v) == [high |-> h, low |-> l, close |-> c, volume |-> v]

Stamp(ts, sh) ==
    [timestamp |-> ts, high |-> sh.high, low |-> sh.low,
     close |-> sh.close, volume |-> sh.volume]

RECURSIVE Reverse(_)
Reverse(sq) == IF sq = <<>> THEN <<>> ELSE Append(Reverse(Tail(sq)), Head(sq))

(* a quiet, slowly rising history of n - 1 bars followed by `latest`;  *)
(* the bar before the latest carries the period high                   *)
History(n, latest) ==
    [k \in 1..n |->
        Stamp(k, IF k = n THEN latest
                 ELSE IF k = n - 1 THEN Shape(33, 20, 27, 4)
                 ELSE Shape(30, 20, 24, 4))]

(* the candle lists of run_screener's and generate_csv_report's fetches, *)
(* newest first, as the historical-candle endpoint lists them            *)
SampleCandles ==
    {Reverse(History(required_candles, sh)) :
        sh \in {Shape(30, 20, 30, 9),        \* passes every rule
                Shape(30, 20, 30, 10),       \* volume ratio 5/2: fails rule 5 alone
                Shape(1600, 20, 1501, 9),    \* above max_price: fails rule 7 alone
                Shape(30, 20, 25, 4),        \* fails rules 1, 3, 4 and 5
                Shape(30, 20, NaN, 9)}}      \* close coerced to NaN
    \cup {Reverse(History(required_candles - 1, Shape(30, 20, 30, 9)))}  \* too few bars

(* ------------------------------------------------------------------ *)
(* State                                                              *)
(* ------------------------------------------------------------------ *)
VARIABLES
    prog,                    \* which entry point runs
    ENABLE_MAX_PRICE_LIMIT,  \* screener_logic.py:13, fixed at import
    token_store_ok,          \* load_token() finds a valid stored token
    access_token,            \* data_fetcher._access_token is set
    total_stocks,            \* len(stocks_to_scan)
    pc,                      \* position of the main thread
    i,                       \* 1-based index of the loop of run_screener
    call,                    \* the fetch_historical_data invocation of the loop
    historical_df,
    all_screening_results,
    fetch_errors,
    shortlisted_stocks,
    hist,                    \* per processed instrument: what happened to it
    tasks,                   \* generate_csv_report: the futures of the pool
    all_metrics,             \* generate_csv_report: the collected rows
    df_in,                   \* the frame apply_screening is applied to (SpecScreen)
    exc_at,                  \* where an exception was raised in it (SpecScreen)
    out,                     \* its result (SpecScreen)
    failure_report,          \* what generate_failure_report computed
    failure_report_filename, \* main.py:136, the report named in the notification
    notification,            \* the arguments send_discord_notification was called with
    settings                 \* config.settings['screener'], once config.yaml is loaded

vars ==
    <<prog, ENABLE_MAX_PRICE_LIMIT, token_store_ok, access_token, total_stocks,
      pc, i, call, historical_df, all_screening_results, fetch_errors,
      shortlisted_stocks, hist, tasks, all_metrics, df_in, exc_at, out,
      failure_report, failure_report_filename, notification, settings>>

NoResult == [unset |-> TRUE]

(* the screener settings the modules of the run were imported with *)
LoadedSettings ==
    [ema_period_short |-> EMA_PERIOD_SHORT, ema_period_long |-> EMA_PERIOD_LONG]

(* dict.get(key, default) *)
Get(d, key, default) == IF key \in DOMAIN d THEN d[key] ELSE default

(* ------------------------------------------------------------------ *)
(* main.run_screener                                                  *)
(* ------------------------------------------------------------------ *)
Init ==
    /\ prog \in {"run_screener", "generate_csv_report"}
    /\ ENABLE_MAX_PRICE_LIMIT \in (IF prog = "run_screener" THEN BOOLEAN ELSE {TRUE})
    /\ token_store_ok \in BOOLEAN
    /\ access_token = FALSE
    /\ total_stocks \in 0..(IF prog = "run_screener" THEN MaxStocks ELSE MaxCsvStocks)
    /\ pc = "start"
    /\ i = 0
    /\ call = NewCall
    /\ historical_df = NoneDf
    /\ all_screening_results = <<>>
    /\ fetch_errors = 0
    /\ shortlisted_stocks = <<>>
    /\ hist = <<>>
    /\ tasks = <<>>
    /\ all_metrics = <<>>
    /\ df_in = NoneDf
    /\ exc_at = "none"
    /\ out = NoResult
    /\ failure_report = NoResult
    /\ failure_report_filename = None
    /\ notification = NoResult
    /\ settings = LoadedSettings

(* lines 37-71: the token check, the stock list, the empty collections *)
Start ==
    /\ prog = "run_screener" /\ pc = "start"
    /\ access_token' = token_store_ok
    /\ IF token_store_ok /\ total_stocks > 0
       THEN pc' = "loop" /\ i' = 1
       ELSE pc' = "exit" /\ i' = i
    /\ UNCHANGED <<notification, settings, failure_report, failure_report_filename, prog, ENABLE_MAX_PRICE_LIMIT, token_store_ok, total_stocks, call,
                   historical_df, all_screening_results, fetch_errors,
                   shortlisted_stocks, hist, tasks, all_metrics, df_in, exc_at, out>>

(* lines 73-86: the next stock of the list; fetch_historical_data is entered *)
LoopNext ==
    /\ prog = "run_screener" /\ pc = "loop" /\ i <= total_stocks
    /\ call' = NewCall
    /\ pc' = "fetch"
    /\ UNCHANGED <<notification, settings, failure_report, failure_report_filename, prog, ENABLE_MAX_PRICE_LIMIT, token_store_ok, access_token,
                   total_stocks, i, historical_df, all_screening_results,
                   fetch_errors, shortlisted_stocks, hist, tasks, all_metrics, df_in, exc_at, out>>

(* the try/except of lines 80-90 left out: a raising fetch ends the run *)
AfterCall_AbortsOnRaise(c) ==
    IF c.pc = "returned"
    THEN /\ historical_df' = c.ret /\ fetch_errors' = fetch_errors /\ pc' = "screen"
    ELSE IF c.pc = "raised"
    THEN /\ historical_df' = historical_df /\ fetch_errors' = fetch_errors
         /\ pc' = "crashed"
    ELSE /\ historical_df' = historical_df /\ fetch_errors' = fetch_errors /\ pc' = pc

(* lines 80-90: how the loop takes the end of the invocation *)
AfterCall(c) ==
    IF c.pc = "returned"
    THEN /\ historical_df' = c.ret /\ fetch_errors' = fetch_errors /\ pc' = "screen"
    ELSE IF c.pc = "raised"
    THEN /\ historical_df' = NoneDf /\ fetch_errors' = fetch_errors + 1 /\ pc' = "screen"
    ELSE /\ historical_df' = historical_df /\ fetch_errors' = fetch_errors /\ pc' = pc

FetchStep ==
    /\ prog = "run_screener" /\ pc = "fetch" /\ call.pc = "request"
    /\ \E resp \in Responses :
       \E candles \in IF resp = "ok" THEN SampleCandles ELSE {<<>>} :
          /\ call' = FetchRequest(call, resp, candles)
          /\ AfterCall(call')
    /\ UNCHANGED <<notification, settings, failure_report, failure_report_filename, prog, ENABLE_MAX_PRICE_LIMIT, token_store_ok, access_token,
                   total_stocks, i, all_screening_results, shortlisted_stocks,
                   hist, tasks, all_metrics, df_in, exc_at, out>>

FetchWakeStep ==
    /\ prog = "run_screener" /\ pc = "fetch" /\ call.pc = "sleep"
    /\ call' = FetchWake(call)
    /\ AfterCall(call')
    /\ UNCHANGED <<notification, settings, failure_report, failure_report_filename, prog, ENABLE_MAX_PRICE_LIMIT, token_store_ok, access_token,
                   total_stocks, i, all_screening_results, shortlisted_stocks,
                   hist, tasks, all_metrics, df_in, exc_at, out>>

(* lines 106-113: the placeholder of an exception that left apply_screening *)
Placeholder(symbol, isin) ==
    [symbol |-> symbol, isin |-> isin, failed_overall |-> TRUE,
     reason |-> Reason("Screening Error", <<>>), rules_passed_count |-> 0]

(* the placeholder of lines 107-113 left out: the exception is only logged *)
CollectResult_DropsPlaceholder(results, res, symbol, isin) ==
    IF res = Raised THEN results
    ELSE IF DOMAIN res # {} THEN Append(results, res @@ [isin |-> isin])
    ELSE results

(* lines 93-113: what the loop adds to all_screening_results *)
CollectResult(results, res, symbol, isin) ==
    IF res = Raised THEN Append(results, Placeholder(symbol, isin))
    ELSE IF DOMAIN res # {} THEN Append(results, res @@ [isin |-> isin])
    ELSE results

(* the try block of apply_screening is entered *)
EntersTry(df) == ~df.none /\ Len(df.bars) >= required_candles

(* lines 92-113 *)
Screen ==
    /\ prog = "run_screener" /\ pc = "screen"
    /\ \E excAt \in ExcPoints :
          /\ excAt # "none" => EntersTry(historical_df)
          /\ all_screening_results' =
                CollectResult(all_screening_results,
                              apply_screening(historical_df, i, ENABLE_MAX_PRICE_LIMIT, excAt),
                              i, i)
          /\ hist' = Append(hist, [fetch |-> call.pc, log |-> call.log,
                                   df |-> historical_df, exc |-> excAt])
    /\ pc' = "pace"
    /\ UNCHANGED <<notification, settings, failure_report, failure_report_filename, prog, ENABLE_MAX_PRICE_LIMIT, token_store_ok, access_token,
                   total_stocks, i, call, historical_df, fetch_errors,
                   shortlisted_stocks, tasks, all_metrics, df_in, exc_at, out>>

(* line 117 and the loop's next iteration *)
Pace ==
    /\ prog = "run_screener" /\ pc = "pace"
    /\ i' = i + 1
    /\ pc' = "loop"
    /\ UNCHANGED <<notification, settings, failure_report, failure_report_filename, prog, ENABLE_MAX_PRICE_LIMIT, token_store_ok, access_token,
                   total_stocks, call, historical_df, all_screening_results,
                   fetch_errors, shortlisted_stocks, hist, tasks, all_metrics, df_in, exc_at, out>>

(* the filter written on the reason: whatever is not a rule failure *)
Shortlist_NotRuleFailed(results) ==
    LET passed(res) == res.reason.tag # "Failed"
    IN  SelectSeq(results, passed)

(* line 123 *)
Shortlist(results) ==
    LET passed(res) == ~Get(res, "failed_overall", TRUE)
    IN  SelectSeq(results, passed)

(* lines 119-132: the loop is over; the passed set is filtered *)
LoopExit ==
    /\ prog = "run_screener" /\ pc = "loop" /\ i > total_stocks
    /\ shortlisted_stocks' = Shortlist(all_screening_results)
    /\ pc' = "aggregated"
    /\ UNCHANGED <<notification, settings, failure_report, failure_report_filename, prog, ENABLE_MAX_PRICE_LIMIT, token_store_ok, access_token,
                   total_stocks, i, call, historical_df, all_screening_results,
                   fetch_errors, hist, tasks, all_metrics, df_in, exc_at, out>>

(* failure_report.py line 24 *)
FAILURE_REPORT_TOTAL_RULES == 4

(* a tally that stops at the first record that passed, so that it      *)
(* depends on where that record stands in the list                     *)
generate_failure_report_TallyUntilPass(failed_stocks, min_rules_passed, write_ok) ==
    LET m == IF min_rules_passed = None THEN 0 ELSE min_rules_passed
        keep(s) == Get(s, "rules_passed_count", 0) >= m
        fs == IF m > 0 THEN SelectSeq(failed_stocks, keep) ELSE failed_stocks
        fails(n) ==
            Cardinality({k \in DOMAIN fs :
                /\ ~Get(fs[k], "passed_rule" \o ToString(n), TRUE)
                /\ \A j \in 1..(k - 1) : Get(fs[j], "failed_overall", TRUE)})
    IN  [failed_stocks |-> fs,
         total_failed |-> Len(fs),
         rule_failures |-> [n \in 1..4 |-> fails(n)],
         almost_passed |->
             Cardinality({k \in DOMAIN fs :
                 Get(fs[k], "rules_passed_count", 0) = FAILURE_REPORT_TOTAL_RULES - 1}),
         raised |-> Len(fs) = 0,
         written |-> Len(fs) # 0 /\ write_ok,
         min_rules_passed |-> min_rules_passed,
         ret |-> None]

(* failure_report.generate_failure_report, lines 26-331: the list the  *)
(* report is built from (lines 38-44), its statistics (53-75), whether *)
(* the division of line 219 raised, whether the file was written       *)
(* (lines 326-331; write_ok: open and write succeed), and the value    *)
(* returned (the function has no return statement)                     *)
generate_failure_report(failed_stocks, min_rules_passed, write_ok) ==
    LET m == IF min_rules_passed = None THEN 0 ELSE min_rules_passed
        keep(s) == Get(s, "rules_passed_count", 0) >= m
        fs == IF m > 0 THEN SelectSeq(failed_stocks, keep) ELSE failed_stocks
        fails(n) ==
            Cardinality({k \in DOMAIN fs : ~Get(fs[k], "passed_rule" \o ToString(n), TRUE)})
    IN  [failed_stocks |-> fs,
         total_failed |-> Len(fs),
         rule_failures |-> [n \in 1..4 |-> fails(n)],
         almost_passed |->
             Cardinality({k \in DOMAIN fs :
                 Get(fs[k], "rules_passed_count", 0) = FAILURE_REPORT_TOTAL_RULES - 1}),
         raised |-> Len(fs) = 0,
         written |-> Len(fs) # 0 /\ write_ok,
         min_rules_passed |-> min_rules_passed,
         ret |-> None]

(* main.py line 139 and line 147: the names get_report_filename gives  *)
(* the success report and the failure analysis report                  *)
report_filename == 1
temp_failure_filename == 2

(* lines 134-158: the failure report is generated from every collected *)
(* result, with min_rules_passed=None; an exception of the call is not *)
(* caught                                                              *)
Report ==
    /\ prog = "run_screener" /\ pc = "aggregated"
    /\ \E write_ok \in BOOLEAN :
          failure_report' =
             generate_failure_report(all_screening_results, None, write_ok)
    /\ IF failure_report'.raised
       THEN pc' = "crashed" /\ failure_report_filename' = failure_report_filename
       ELSE /\ pc' = "reported"
            /\ failure_report_filename' =
                  (IF failure_report'.ret # None THEN temp_failure_filename ELSE None)
    /\ UNCHANGED <<notification, settings, prog, ENABLE_MAX_PRICE_LIMIT, token_store_ok,
                   access_token, total_stocks, i, call, historical_df,
                   all_screening_results, fetch_errors, shortlisted_stocks, hist,
                   tasks, all_metrics, df_in, exc_at, out>>

(* lines 138-141 and 160-167: send_discord_notification is called with *)
(* the passed set and the names of the two reports                     *)
Notify ==
    /\ prog = "run_screener" /\ pc = "reported"
    /\ notification' =
          [shortlisted_stocks |-> shortlisted_stocks,
           report_filename |->
               (IF shortlisted_stocks # <<>> THEN report_filename ELSE None),
           failure_report_filename |-> failure_report_filename]
    /\ pc' = "notified"
    /\ UNCHANGED <<settings, failure_report, failure_report_filename, prog,
                   ENABLE_MAX_PRICE_LIMIT, token_store_ok, access_token,
                   total_stocks, i, call, historical_df, all_screening_results,
                   fetch_errors, shortlisted_stocks, hist, tasks, all_metrics,
                   df_in, exc_at, out>>

(* ------------------------------------------------------------------ *)
(* utils/generate_csv_report                                          *)
(* ------------------------------------------------------------------ *)
NoRow == [none |-> TRUE]

(* lines 29-90; exc: an exception is raised inside the try block *)
calculate_metrics(df, symbol, isin, exc) ==
    IF df.none \/ df.bars = <<>>
       \/ Len(df.bars) < MaxOf({LOOKBACK_PERIOD, AVG_VOLUME_LOOKBACK + 1, EMA_PERIOD_LONG})
    THEN NoRow
    ELSE IF exc THEN NoRow
    ELSE LET ind == Indicators(df.bars)
             avg == ind.avg_volume_lookback_val
             volume_ratio ==
                 IF ~IsNaR(avg) /\ avg[1] > 0
                 THEN IF IsNa(ind.latest_volume) THEN NaNR
                      ELSE Norm(ind.latest_volume * avg[2], avg[1])
                 ELSE <<0, 1>>
             price_drop_pct ==
                 IF ~IsNa(ind.period_high) /\ ind.period_high > 0
                 THEN IF IsNa(ind.latest_close) THEN NaNR
                      ELSE Norm(100 * (ind.period_high - ind.latest_close), ind.period_high)
                 ELSE <<0, 1>>
         IN  IF IsNa(ind.latest_close)
                \/ ~(CSV_MIN_PRICE <= ind.latest_close /\ ind.latest_close <= CSV_MAX_PRICE)
             THEN NoRow
             ELSE [none |-> FALSE, symbol |-> symbol, isin |-> isin,
                   close |-> ind.latest_close,
                   ema_20 |-> ind.latest_ema_short, ema_50 |-> ind.latest_ema_long,
                   period_high |-> ind.period_high, period_low |-> ind.period_low,
                   volume |-> ind.latest_volume, avg_volume_50d |-> avg,
                   volume_ratio |-> volume_ratio, price_drop_pct |-> price_drop_pct,
                   timestamp |-> ind.latest_timestamp]

(* lines 100-116: what process_stock returns once its fetch has ended *)
process_stock(c, symbol, isin, exc) ==
    IF c.pc = "raised" \/ c.ret.none THEN NoRow
    ELSE calculate_metrics(c.ret, symbol, isin, exc)

(* the candle lists of generate_csv_report's fetches *)
CsvCandles ==
    {Reverse(History(required_candles, Shape(30, 20, 30, 9))),
     Reverse(History(required_candles - 1, Shape(30, 20, 30, 9)))}

Running == {k \in DOMAIN tasks : tasks[k].st = "running"}
Queued == {k \in DOMAIN tasks : tasks[k].st = "queued"}

(* lines 118-155: the token check, the stock list, one future per stock *)
CsvStart ==
    /\ prog = "generate_csv_report" /\ pc = "start"
    /\ access_token' = token_store_ok
    /\ IF token_store_ok /\ total_stocks > 0
       THEN /\ pc' = "pool"
            /\ tasks' = [k \in 1..total_stocks |->
                            [st |-> "queued", call |-> NewCall, result |-> NoRow]]
       ELSE pc' = "exit" /\ tasks' = tasks
    /\ UNCHANGED <<notification, settings, failure_report, failure_report_filename, prog, ENABLE_MAX_PRICE_LIMIT, token_store_ok, total_stocks, i, call,
                   historical_df, all_screening_results, fetch_errors,
                   shortlisted_stocks, hist, all_metrics, df_in, exc_at, out>>

(* a pool that starts a thread for every submitted work item *)
WorkerFree_Unbounded == TRUE

(* ThreadPoolExecutor(max_workers=3): at most max_workers threads run *)
(* work items                                                          *)
WorkerFree == Cardinality(Running) < max_workers

(* a free worker takes the oldest queued work item and enters          *)
(* process_stock (lines 92-106)                                        *)
CsvTake(k) ==
    /\ prog = "generate_csv_report" /\ pc = "pool"
    /\ k \in Queued /\ k = MinOf(Queued)
    /\ WorkerFree
    /\ tasks' = [tasks EXCEPT ![k].st = "running", ![k].call = NewCall]
    /\ UNCHANGED <<notification, settings, failure_report, failure_report_filename, prog, ENABLE_MAX_PRICE_LIMIT, token_store_ok, access_token,
                   total_stocks, pc, i, call, historical_df, all_screening_results,
                   fetch_errors, shortlisted_stocks, hist, all_metrics, df_in, exc_at, out>>

(* the attempt counter kept at module level and shared by the          *)
(* invocations in flight: a step leaves the invocation at the highest  *)
(* attempt any of them has reached                                     *)
TaskAfter_SharedAttempts(t, c, k, exc) ==
    LET shared == MaxOf({c.attempt} \cup {tasks[j].call.attempt : j \in DOMAIN tasks})
    IN  IF CallInFlight(c) THEN [t EXCEPT !.call = [c EXCEPT !.attempt = shared]]
        ELSE [t EXCEPT !.st = "done", !.call = NewCall,
                       !.result = process_stock(c, k, k, exc)]

(* the task of stock k after a step of its fetch: still fetching, or   *)
(* process_stock returns and the future is done                        *)
TaskAfter(t, c, k, exc) ==
    IF CallInFlight(c) THEN [t EXCEPT !.call = c]
    ELSE [t EXCEPT !.st = "done", !.call = NewCall,
                   !.result = process_stock(c, k, k, exc)]

CsvFetchStep(k) ==
    /\ prog = "generate_csv_report" /\ pc = "pool"
    /\ k \in Running /\ tasks[k].call.pc = "request"
    /\ \E resp \in Responses :
       \E candles \in IF resp = "ok" THEN CsvCandles ELSE {<<>>} :
       \E exc \in IF resp = "ok" /\ Len(candles) >= required_candles
                  THEN BOOLEAN ELSE {FALSE} :
          tasks' = [tasks EXCEPT
                       ![k] = TaskAfter(@, FetchRequest(@.call, resp, candles), k, exc)]
    /\ UNCHANGED <<notification, settings, failure_report, failure_report_filename, prog, ENABLE_MAX_PRICE_LIMIT, token_store_ok, access_token,
                   total_stocks, pc, i, call, historical_df, all_screening_results,
                   fetch_errors, shortlisted_stocks, hist, all_metrics, df_in, exc_at, out>>

CsvFetchWake(k) ==
    /\ prog = "generate_csv_report" /\ pc = "pool"
    /\ k \in Running /\ tasks[k].call.pc = "sleep"
    /\ tasks' = [tasks EXCEPT ![k] = TaskAfter(@, FetchWake(@.call), k, FALSE)]
    /\ UNCHANGED <<notification, settings, failure_report, failure_report_filename, prog, ENABLE_MAX_PRICE_LIMIT, token_store_ok, access_token,
                   total_stocks, pc, i, call, historical_df, all_screening_results,
                   fetch_errors, shortlisted_stocks, hist, all_metrics, df_in, exc_at, out>>

(* future.result() re-raising for a work item that gave no row: the    *)
(* loop of lines 156-161 is left and nothing more is collected         *)
CsvCollect_RaisesOnFailedTask(k) ==
    /\ prog = "generate_csv_report" /\ pc = "pool"
    /\ k \in DOMAIN tasks /\ tasks[k].st = "done"
    /\ IF tasks[k].result.none
       THEN /\ pc' = "crashed"
            /\ UNCHANGED <<fetch_errors, all_metrics, tasks>>
       ELSE /\ pc' = pc /\ fetch_errors' = fetch_errors
            /\ all_metrics' = Append(all_metrics, tasks[k].result)
            /\ tasks' = [tasks EXCEPT ![k].st = "collected", ![k].result = NoRow]
    /\ UNCHANGED <<notification, settings, failure_report, failure_report_filename,
                   prog, ENABLE_MAX_PRICE_LIMIT, token_store_ok, access_token,
                   total_stocks, i, call, historical_df, all_screening_results,
                   shortlisted_stocks, hist, df_in, exc_at, out>>

(* lines 156-161: as_completed yields a finished future *)
CsvCollect(k) ==
    /\ prog = "generate_csv_report" /\ pc = "pool"
    /\ k \in DOMAIN tasks /\ tasks[k].st = "done"
    /\ IF tasks[k].result.none
       THEN fetch_errors' = fetch_errors + 1 /\ all_metrics' = all_metrics
       ELSE fetch_errors' = fetch_errors /\ all_metrics' = Append(all_metrics, tasks[k].result)
    /\ tasks' = [tasks EXCEPT ![k].st = "collected", ![k].result = NoRow]
    /\ UNCHANGED <<notification, settings, failure_report, failure_report_filename, prog, ENABLE_MAX_PRICE_LIMIT, token_store_ok, access_token,
                   total_stocks, pc, i, call, historical_df, all_screening_results,
                   shortlisted_stocks, hist, df_in, exc_at, out>>

(* the with block of line 154 is left once every future was yielded *)
CsvDrained ==
    /\ prog = "generate_csv_report" /\ pc = "pool"
    /\ \A k \in DOMAIN tasks : tasks[k].st = "collected"
    /\ pc' = "drained"
    /\ UNCHANGED <<notification, settings, failure_report, failure_report_filename, prog, ENABLE_MAX_PRICE_LIMIT, token_store_ok, access_token,
                   total_stocks, i, call, historical_df, all_screening_results,
                   fetch_errors, shortlisted_stocks, hist, tasks, all_metrics,
                   df_in, exc_at, out>>

CsvNext ==
    \/ CsvStart
    \/ \E k \in 1..MaxCsvStocks :
          CsvTake(k) \/ CsvFetchStep(k) \/ CsvFetchWake(k) \/ CsvCollect(k)
    \/ CsvDrained

ScreenerNext ==
    Start \/ LoopNext \/ FetchStep \/ FetchWakeStep \/ Screen \/ Pace \/ LoopExit
    \/ Report \/ Notify

Next == ScreenerNext \/ CsvNext

Spec == Init /\ [][Next]_vars

(* ------------------------------------------------------------------ *)
(* apply_screening as a function of its frame: the caller builds any  *)
(* frame of at most MaxLen bars, each bar one of BarShapes, with      *)
(* increasing timestamps, and hands it over in ascending or in        *)
(* descending order.                                                  *)
(* ------------------------------------------------------------------ *)
BarShapes ==
    {Shape(30, 20, 24, 4),         \* a quiet bar, low close
     Shape(33, 18, 27, 4),         \* a higher high and a lower low
     Shape(30, 20, 30, 9),         \* close at the high 30, volume 9
     Shape(30, 20, 27, 10),        \* close 10% under 30, volume 10
     Shape(30, 20, 25, 8),         \* close at min_price, volume 8
     Shape(1600, 20, 1501, 9),     \* close above max_price
     Shape(NaN, NaN, NaN, NaN),    \* every field coerced to NaN
     Shape(0, 0, 27, 0),           \* zero high, low and volume
     Shape(-5, -5, 27, -4)}        \* negative high, low and volume

InitScreen ==
    /\ prog = "apply_screening"
    /\ ENABLE_MAX_PRICE_LIMIT \in BOOLEAN
    /\ token_store_ok = TRUE
    /\ access_token = TRUE
    /\ total_stocks = 1
    /\ pc = "input"
    /\ i = 1
    /\ call = NewCall
    /\ historical_df = NoneDf
    /\ all_screening_results = <<>>
    /\ fetch_errors = 0
    /\ shortlisted_stocks = <<>>
    /\ hist = <<>>
    /\ tasks = <<>>
    /\ all_metrics = <<>>
    /\ df_in \in {NoneDf, Frame(<<>>)}
    /\ exc_at = "none"
    /\ out = NoResult
    /\ failure_report = NoResult
    /\ failure_report_filename = None
    /\ notification = NoResult
    /\ settings = LoadedSettings

(* the caller's frame gets one more bar *)
AddBar ==
    /\ prog = "apply_screening" /\ pc = "input"
    /\ ~df_in.none /\ Len(df_in.bars) < MaxLen
    /\ \E sh \in BarShapes :
          df_in' = Frame(Append(df_in.bars, Stamp(Len(df_in.bars) + 1, sh)))
    /\ UNCHANGED <<notification, settings, failure_report, failure_report_filename, prog, ENABLE_MAX_PRICE_LIMIT, token_store_ok, access_token,
                   total_stocks, pc, i, call, historical_df, all_screening_results,
                   fetch_errors, shortlisted_stocks, hist, tasks, all_metrics,
                   exc_at, out>>

(* apply_screening(df, symbol) is called, on the frame as built or on *)
(* its rows in descending order, and returns or raises                *)
Apply ==
    /\ prog = "apply_screening" /\ pc = "input"
    /\ \E excAt \in ExcPoints, rev \in BOOLEAN :
          /\ excAt # "none" => (EntersTry(df_in) /\ ~rev)
          /\ rev => (~df_in.none /\ Len(df_in.bars) >= 2)
          /\ df_in' = IF rev THEN Frame(Reverse(df_in.bars)) ELSE df_in
          /\ exc_at' = excAt
          /\ out' = apply_screening(df_in', 1, ENABLE_MAX_PRICE_LIMIT, excAt)
    /\ pc' = "applied"
    /\ UNCHANGED <<notification, settings, failure_report, failure_report_filename, prog, ENABLE_MAX_PRICE_LIMIT, token_store_ok, access_token,
                   total_stocks, i, call, historical_df, all_screening_results,
                   fetch_errors, shortlisted_stocks, hist, tasks, all_metrics>>

NextScreen == AddBar \/ Apply

SpecScreen == InitScreen /\ [][NextScreen]_vars

(* The loop of run_screener is sequential code: every step of it that  *)
(* can be taken is taken eventually (requests.get returns or raises,   *)
(* time.sleep ends, apply_screening returns or raises).  The step out  *)
(* of the screening call is named by the control points it joins: by   *)
(* [][Next]_vars a step from "screen" to "pace" is a Screen step.      *)
LeaveScreen == prog = "run_screener" /\ pc = "screen" /\ pc' = "pace"

FairSpec ==
    /\ Spec
    /\ WF_vars(Start) /\ WF_vars(LoopNext) /\ WF_vars(FetchStep)
    /\ WF_vars(FetchWakeStep) /\ WF_pc(LeaveScreen) /\ WF_vars(Pace)
    /\ WF_vars(LoopExit) /\ WF_vars(Report) /\ WF_vars(Notify)

(* ------------------------------------------------------------------ *)
(* Process start: config.py and the module level of screener_logic,   *)
(* then run_screener up to the return of its first fetch              *)
(* ------------------------------------------------------------------ *)
MaxPeriod == 3

(* what config.yaml can be: absent, not parseable, empty, or a mapping *)
(* whose screener section gives the two EMA periods any values, or     *)
(* lacks ema_period_long                                               *)
ConfigFiles ==
    {[kind |-> k, screener |-> <<>>] : k \in {"missing", "yaml_error", "empty"}}
    \cup {[kind |-> "ok",
           screener |-> [ema_period_short |-> sp, ema_period_long |-> lp]] :
             sp \in 1..MaxPeriod, lp \in 1..MaxPeriod}
    \cup {[kind |-> "ok", screener |-> [ema_period_short |-> sp]] : sp \in 1..MaxPeriod}

(* config.py lines 10-45 and 88-91: SystemExit on a YAML error or on   *)
(* empty settings, the default settings when the file is absent, and   *)
(* otherwise the mapping as read; no value of it is examined           *)
LoadConfig ==
    /\ prog = "run_screener" /\ pc = "import_config"
    /\ \E f \in ConfigFiles :
          CASE f.kind = "missing" -> settings' = LoadedSettings /\ pc' = "config_loaded"
            [] f.kind = "ok" -> settings' = f.screener /\ pc' = "config_loaded"
            [] OTHER -> settings' = <<>> /\ pc' = "fatal"
    /\ UNCHANGED <<notification, failure_report, failure_report_filename, prog,
                   ENABLE_MAX_PRICE_LIMIT, token_store_ok, access_token,
                   total_stocks, i, call, historical_df, all_screening_results,
                   fetch_errors, shortlisted_stocks, hist, tasks, all_metrics,
                   df_in, exc_at, out>>

(* screener_logic.py lines 8-23: the module-level reads of the screener *)
(* section; a missing key raises KeyError, which ends the process       *)
ImportScreenerLogic ==
    /\ prog = "run_screener" /\ pc = "config_loaded"
    /\ pc' = (IF {"ema_period_short", "ema_period_long"} \subseteq DOMAIN settings
              THEN "start" ELSE "fatal")
    /\ UNCHANGED <<notification, settings, failure_report, failure_report_filename,
                   prog, ENABLE_MAX_PRICE_LIMIT, token_store_ok, access_token,
                   total_stocks, i, call, historical_df, all_screening_results,
                   fetch_errors, shortlisted_stocks, hist, tasks, all_metrics,
                   df_in, exc_at, out>>

InitConfig ==
    /\ prog = "run_screener"
    /\ ENABLE_MAX_PRICE_LIMIT \in BOOLEAN
    /\ token_store_ok \in BOOLEAN
    /\ access_token = FALSE
    /\ total_stocks \in 0..MaxStocks
    /\ pc = "import_config"
    /\ i = 0
    /\ call = NewCall
    /\ historical_df = NoneDf
    /\ all_screening_results = <<>>
    /\ fetch_errors = 0
    /\ shortlisted_stocks = <<>>
    /\ hist = <<>>
    /\ tasks = <<>>
    /\ all_metrics = <<>>
    /\ df_in = NoneDf
    /\ exc_at = "none"
    /\ out = NoResult
    /\ failure_report = NoResult
    /\ failure_report_filename = None
    /\ notification = NoResult
    /\ settings = <<>>

NextConfig ==
    LoadConfig \/ ImportScreenerLogic \/ Start \/ LoopNext \/ FetchStep \/ FetchWakeStep

SpecConfig == InitConfig /\ [][NextConfig]_vars

(* ------------------------------------------------------------------ *)
(* Aggregation on its own: the results of the loop in any order, the   *)
(* filter of main.py line 123 and generate_failure_report under every  *)
(* threshold its parameter min_rules_passed admits                     *)
(* ------------------------------------------------------------------ *)
MaxReportLen == 2

(* one more instrument is processed as in lines 92-113 of main.py: its *)
(* fetch gave no data or one of the sample histories, and              *)
(* apply_screening returned or raised                                  *)
AddResult ==
    /\ prog = "aggregate" /\ pc = "input"
    /\ Len(all_screening_results) < MaxReportLen
    /\ \E df \in {NoneDf} \cup {Frame(SortByTs(c)) : c \in SampleCandles} :
       \E excAt \in {"none", "outer"} :
          /\ excAt # "none" => EntersTry(df)
          /\ all_screening_results' =
                CollectResult(all_screening_results,
                              apply_screening(df, Len(all_screening_results) + 1,
                                              ENABLE_MAX_PRICE_LIMIT, excAt),
                              Len(all_screening_results) + 1,
                              Len(all_screening_results) + 1)
    /\ UNCHANGED <<notification, settings, failure_report, failure_report_filename,
                   prog, ENABLE_MAX_PRICE_LIMIT, token_store_ok, access_token,
                   total_stocks, pc, i, call, historical_df, fetch_errors,
                   shortlisted_stocks, hist, tasks, all_metrics, df_in, exc_at, out>>

(* main.py line 123 and the call of generate_failure_report, with      *)
(* min_rules_passed None or a number of rules                          *)
Aggregate ==
    /\ prog = "aggregate" /\ pc = "input"
    /\ all_screening_results # <<>>
    /\ shortlisted_stocks' = Shortlist(all_screening_results)
    /\ \E min_rules_passed \in {None} \cup (0..TOTAL_RULES(TRUE)) :
       \E write_ok \in BOOLEAN :
          failure_report' =
             generate_failure_report(all_screening_results, min_rules_passed, write_ok)
    /\ pc' = (IF failure_report'.raised THEN "crashed" ELSE "reported")
    /\ UNCHANGED <<notification, settings, failure_report_filename, prog,
                   ENABLE_MAX_PRICE_LIMIT, token_store_ok, access_token,
                   total_stocks, i, call, historical_df, all_screening_results,
                   fetch_errors, hist, tasks, all_metrics, df_in, exc_at, out>>

InitReport ==
    /\ prog = "aggregate"
    /\ ENABLE_MAX_PRICE_LIMIT \in BOOLEAN
    /\ token_store_ok = TRUE
    /\ access_token = TRUE
    /\ total_stocks = MaxReportLen
    /\ pc = "input"
    /\ i = 0
    /\ call = NewCall
    /\ historical_df = NoneDf
    /\ all_screening_results = <<>>
    /\ fetch_errors = 0
    /\ shortlisted_stocks = <<>>
    /\ hist = <<>>
    /\ tasks = <<>>
    /\ all_metrics = <<>>
    /\ df_in = NoneDf
    /\ exc_at = "none"
    /\ out = NoResult
    /\ failure_report = NoResult
    /\ failure_report_filename = None
    /\ notification = NoResult
    /\ settings = LoadedSettings

NextReport == AddResult \/ Aggregate

SpecReport == InitReport /\ [][NextReport]_vars

(* ------------------------------------------------------------------ *)
(* Properties                                                         *)
(* ------------------------------------------------------------------ *)
(* every invocation of fetch_historical_data the state holds *)
AllCalls == {call} \cup {tasks[k].call : k \in DOMAIN tasks}

LastOf(sq) == sq[Len(sq)]

AllRateLimited(c) == c.resps # <<>> /\ \A k \in DOMAIN c.resps : c.resps[k] = "http429"

(* C1: when the screening loop of run_screener has finished, the       *)
(* results collection holds exactly N records, exactly one for each of *)
(* the N instruments of the list, whatever happened to each of them;   *)
(* inside the loop it holds one record per instrument already          *)
(* processed.                                                          *)
C1_OneRecordPerInstrument ==
    prog = "run_screener" =>
        /\ pc = "aggregated" =>
              /\ Len(all_screening_results) = total_stocks
              /\ \A k \in 1..total_stocks :
                    Cardinality({j \in DOMAIN all_screening_results :
                                    all_screening_results[j].symbol = k}) = 1
        /\ pc \in {"loop", "fetch", "screen"} => Len(all_screening_results) = i - 1
        /\ pc = "pace" => Len(all_screening_results) = i

(* a two-instrument run has finished whose first fetch raised and whose *)
(* second screening raised out of apply_screening                       *)
C1_Witness ==
    /\ prog = "run_screener" /\ pc = "aggregated" /\ total_stocks = 2
    /\ hist[1].fetch = "raised"
    /\ hist[2].exc = "outer"

(* C2: a fetch error, insufficient data or an exception on instrument  *)
(* i never aborts the run: at the aggregation step every instrument of *)
(* the list has been fetched and screened, and the loop, once entered, *)
(* always reaches the aggregation step.                                *)
C2_FailureNeverAbortsRun ==
    /\ [](prog = "run_screener" /\ pc = "aggregated" =>
             /\ Len(hist) = total_stocks
             /\ \A k \in DOMAIN hist : hist[k].fetch \in {"returned", "raised"})
    /\ ((prog = "run_screener" /\ pc = "loop") ~> (pc = "aggregated"))

(* the first instrument exhausted its retries and the second one was   *)
(* still fetched and screened                                          *)
C2_Witness ==
    /\ prog = "run_screener" /\ pc = "aggregated" /\ Len(hist) = 2
    /\ hist[1].log = "max_retries_exceeded"
    /\ hist[2].log = "success"

(* C3: an invocation makes at most 3 requests; the delay slept after   *)
(* the k-th rate-limited attempt (k from 0) is 2^k, so the delays are  *)
(* 1, 2, 4 in this order; when every request was rate-limited the call *)
(* made 3 requests, slept 1, 2 and 4 and returned failure; a request   *)
(* that succeeds after j < 3 rate-limited attempts returns the data.   *)
C3_RateLimitBackoff ==
    \A c \in AllCalls :
        /\ c.nreq <= 3
        /\ Len(c.sleeps) <= 3
        /\ c.sleeps = SubSeq(<<1, 2, 4>>, 1, Len(c.sleeps))
        /\ Len(c.sleeps) = Cardinality({k \in DOMAIN c.resps : c.resps[k] = "http429"})
        /\ (c.pc = "returned" /\ AllRateLimited(c)) =>
              (c.nreq = 3 /\ c.sleeps = <<1, 2, 4>> /\ c.ret.none)
        /\ (c.resps # <<>> /\ LastOf(c.resps) = "ok") =>
              /\ c.pc = "returned" /\ ~c.ret.none
              /\ Len(c.resps) - 1 < 3
              /\ \A k \in 1..(Len(c.resps) - 1) : c.resps[k] = "http429"

(* the loop's invocation was rate-limited three times and gave up *)
C3_Witness ==
    /\ prog = "run_screener" /\ call.pc = "returned"
    /\ call.resps = <<"http429", "http429", "http429">>

(* the upstream outcomes that are neither a success nor a rate limit *)
ImmediateFailures == {"http_error", "exception", "timeout", "status_fail", "no_candles"}

(* C4: an outcome other than a rate-limit signal (a non-429 HTTP       *)
(* error, a transport exception, a status other than 'success', no     *)
(* candles) ends the invocation at once: it is the last request made,  *)
(* the call has returned failure, and no sleep followed it.            *)
C4_OtherErrorsFailImmediately ==
    \A c \in AllCalls :
        \A k \in DOMAIN c.resps :
            c.resps[k] \in ImmediateFailures =>
                /\ k = Len(c.resps) /\ c.nreq = k
                /\ c.pc = "returned" /\ c.ret.none
                /\ Len(c.sleeps) = k - 1

(* a non-429 HTTP error on the second attempt, after one rate limit *)
C4_Witness ==
    /\ prog = "run_screener" /\ call.pc = "returned"
    /\ call.resps = <<"http429", "http_error">>

(* the classes of the 'log' left by a fetch that returned failure *)
FetchFailureLogs ==
    {"max_retries_exceeded", "http_error", "unexpected_error", "api_failed", "no_candles"}

(* C5 as stated: the failure value of a fetch whose retries were all  *)
(* rate-limited differs, for the caller, from the failure value of a  *)
(* fetch that failed on a non-retried error.                          *)
C5_Original ==
    prog = "run_screener" =>
        \A j, k \in DOMAIN hist :
            (/\ hist[j].log = "max_retries_exceeded"
             /\ hist[k].log \in FetchFailureLogs \ {"max_retries_exceeded"})
            => hist[j].df # hist[k].df

(* C5 (amended): when all retry attempts of a fetch end in a rate-limit *)
(* signal the fetch returns None, the same value as after any other    *)
(* failure, and the cause max-retries-exceeded is only logged; the     *)
(* caller records every failed fetch alike, with reason 'No data'.     *)
C5_ExhaustedRetriesReturnNone ==
    /\ \A c \in AllCalls :
          (c.pc = "returned" /\ AllRateLimited(c)) =>
              (c.ret = NoneDf /\ c.log = "max_retries_exceeded")
    /\ prog = "run_screener" =>
          \A k \in DOMAIN hist :
              (hist[k].fetch = "returned" /\ hist[k].log \in FetchFailureLogs) =>
                  /\ hist[k].df = NoneDf
                  /\ all_screening_results[k].reason = Reason("No data", <<>>)
                  /\ all_screening_results[k].failed_overall

(* one instrument exhausted its retries, another failed on a non-429   *)
(* HTTP error, and both were recorded                                  *)
C5_Witness ==
    /\ prog = "run_screener" /\ Len(hist) = 2
    /\ hist[1].log = "max_retries_exceeded"
    /\ hist[2].log = "http_error"

(* C6 as stated: after a timed-out attempt that is not the last        *)
(* allowed one, the invocation goes on to another attempt.             *)
C6_Original ==
    \A c \in AllCalls :
        (c.resps # <<>> /\ LastOf(c.resps) = "timeout" /\ Len(c.resps) < max_retries)
            => CallInFlight(c)

(* C6 (amended): a fetch attempt that times out is handled like any    *)
(* other transport exception: it is the last attempt, whichever        *)
(* attempt it is, and fetch_historical_data returns failure at once.   *)
C6_TimeoutFailsImmediately ==
    \A c \in AllCalls :
        \A k \in DOMAIN c.resps :
            c.resps[k] = "timeout" =>
                /\ k = Len(c.resps)
                /\ c.pc = "returned" /\ c.ret = NoneDf
                /\ c.log = "unexpected_error"
                /\ Len(c.sleeps) = k - 1

(* a timeout on the second attempt, after one rate limit *)
C6_Witness ==
    /\ prog = "run_screener" /\ call.pc = "returned"
    /\ call.resps = <<"http429", "timeout">>

(* the terminal classes of a record, read off its fields *)
IsPassed(res) == ~res.failed_overall
IsFailed(res) == res.failed_overall /\ res.reason.tag = "Failed"
IsFetchFailed(res) == res.failed_overall /\ res.reason.tag = "No data"
IsInsufficientData(res) ==
    res.failed_overall
    /\ res.reason.tag \in {"Insufficient data", "NaN/Zero in critical data"}
IsError(res) == res.failed_overall /\ res.reason.tag \in {"Error", "Screening Error"}

(* a rule flag of the record is set, or its metrics map is filled *)
RulesEvaluated(res) ==
    \/ \E n \in 1..7 : Get(res, "passed_rule" \o ToString(n), FALSE)
    \/ Get(res, "metrics", <<>>) # <<>>

SufficientData(df) == ~df.none /\ Len(df.bars) >= required_candles

ValidData(df) == SufficientData(df) /\ ~CriticalDataInvalid(Indicators(df.bars))

(* how many of the four terminal states of the claim a record is in *)
FourStateCount(res) ==
    (IF IsPassed(res) THEN 1 ELSE 0) + (IF IsFailed(res) THEN 1 ELSE 0)
    + (IF IsFetchFailed(res) THEN 1 ELSE 0) + (IF IsInsufficientData(res) THEN 1 ELSE 0)

InFlight ==
    IF prog = "run_screener"
    THEN {k \in 1..total_stocks : k = i /\ pc = "fetch" /\ CallInFlight(call)}
    ELSE {k \in DOMAIN tasks : tasks[k].st = "running" /\ CallInFlight(tasks[k].call)}

(* C8: at every moment the number of instruments whose fetch is in     *)
(* flight is at most the worker count: 1 in run_screener's loop, 3 in  *)
(* generate_csv_report's pool, however many instruments there are and  *)
(* however long a fetch retries.                                       *)
C8_BoundedInFlight ==
    /\ prog = "run_screener" => Cardinality(InFlight) <= 1
    /\ prog = "generate_csv_report" =>
          /\ Cardinality(InFlight) <= max_workers
          /\ Cardinality(Running) <= max_workers

(* three fetches in flight, one of them asleep in its backoff, and a   *)
(* fourth instrument waiting in the queue                              *)
C8_Witness ==
    /\ prog = "generate_csv_report"
    /\ Cardinality(InFlight) = max_workers
    /\ Queued # {}
    /\ \E k \in InFlight : tasks[k].call.pc = "sleep"

(* no rule flag of the record is set and its count is 0 *)
NoRuleEvaluated(res) ==
    /\ \A n \in 1..7 : ~Get(res, "passed_rule" \o ToString(n), FALSE)
    /\ \A n \in 1..6 : ("passed_rule" \o ToString(n)) \in DOMAIN res
    /\ res.rules_passed_count = 0
    /\ res.failed_overall

(* no metric field of the record is populated *)
NoMetricPopulated(res) ==
    /\ res.close = None /\ res.period_high = None /\ res.period_low = None
    /\ res.volume = None /\ res.avg_volume_50d = NoneR
    /\ res.metrics = <<>>

(* C9: for every series with fewer bars than the largest of            *)
(* lookback_period, avg_volume_lookback + 1, ema_period_long and       *)
(* ema_period_short (the absent and the empty series included)         *)
(* apply_screening returns an insufficient-data record: no metric      *)
(* field is populated, every rule flag is false, rules_passed_count is *)
(* 0 and failed_overall is true.                                       *)
C9_ShortSeriesInsufficient ==
    (/\ prog = "apply_screening" /\ pc = "applied"
     /\ \/ df_in.none
        \/ Len(df_in.bars) < MaxOf({LOOKBACK_PERIOD, AVG_VOLUME_LOOKBACK + 1,
                                    EMA_PERIOD_LONG, EMA_PERIOD_SHORT}))
    => /\ out # Raised
       /\ NoMetricPopulated(out)
       /\ NoRuleEvaluated(out)
       /\ out.reason.tag \in {"No data", "Insufficient data"}
       /\ out.reason.tag = "No data" <=> (df_in.none \/ df_in.bars = <<>>)

(* apply_screening was applied to a series one bar short of the        *)
(* requirement, long enough for the lookback period alone              *)
C9_Witness ==
    /\ prog = "apply_screening" /\ pc = "applied"
    /\ ~df_in.none
    /\ Len(df_in.bars) = MaxOf({LOOKBACK_PERIOD, AVG_VOLUME_LOOKBACK + 1,
                                EMA_PERIOD_LONG, EMA_PERIOD_SHORT}) - 1
    /\ Len(df_in.bars) >= LOOKBACK_PERIOD
    /\ out.reason.tag = "Insufficient data"

(* one of the seven critical values of a sufficient series is NaN *)
SomeCriticalNaN(df) ==
    LET ind == Indicators(df.bars)
    IN  \/ IsNa(ind.latest_close) \/ IsNa(ind.latest_volume)
        \/ IsNa(ind.period_high) \/ IsNa(ind.period_low)
        \/ IsNaR(ind.avg_volume_lookback_val)
        \/ IsNaR(ind.latest_ema_short) \/ IsNaR(ind.latest_ema_long)

(* apply_screening ran on a sufficient series and nothing was raised   *)
(* before its NaN/zero guard                                           *)
ReachedGuard ==
    /\ prog = "apply_screening" /\ pc = "applied"
    /\ SufficientData(df_in)
    /\ exc_at \notin {"calc", "outer"}

(* C10 as stated: with a NaN among the critical values no rule is      *)
(* evaluated and the record carries no populated metric value.         *)
C10_Original ==
    (ReachedGuard /\ SomeCriticalNaN(df_in)) =>
        /\ NoRuleEvaluated(out)
        /\ out.reason.tag = "NaN/Zero in critical data"
        /\ NoMetricPopulated(out)

(* C10 (amended): with a NaN among close, volume, period_high,         *)
(* period_low, avg_volume, ema_short, ema_long of a sufficient series  *)
(* apply_screening evaluates no rule: every rule flag stays false,     *)
(* rules_passed_count is 0, failed_overall is true, the reason is the  *)
(* data-quality tag and the metrics map is empty; the top-level fields *)
(* close, period_high, period_low, volume, avg volume and timestamp    *)
(* are populated with the values computed before the guard, NaN ones   *)
(* included.                                                           *)
C10_NaNEvaluatesNoRule ==
    (ReachedGuard /\ SomeCriticalNaN(df_in)) =>
        LET ind == Indicators(df_in.bars)
        IN  /\ NoRuleEvaluated(out)
            /\ out.reason.tag = "NaN/Zero in critical data"
            /\ out.metrics = <<>>
            /\ out.close = ind.latest_close
            /\ out.period_high = ind.period_high
            /\ out.period_low = ind.period_low
            /\ out.volume = ind.latest_volume
            /\ out.avg_volume_50d = ind.avg_volume_lookback_val
            /\ out.timestamp = ind.latest_timestamp

(* the latest close is NaN while the period high is a number, and the  *)
(* record came back with both stored                                   *)
C10_Witness ==
    /\ ReachedGuard /\ SomeCriticalNaN(df_in)
    /\ out.close = NaN
    /\ out.period_high = 33

BarsRanked(bars, lo, hi) ==
    {k \in DOMAIN bars : Len(bars) - bars[k].timestamp \in lo..hi}

RECURSIVE SumField(_, _, _)
SumField(bars, S, f) ==
    IF S = {} THEN 0
    ELSE LET k == CHOOSE x \in S : TRUE
         IN  bars[k][f] + SumField(bars, S \ {k}, f)

(* the frame with the volume of bar k replaced *)
WithVolume(bars, k, v) == [bars EXCEPT ![k].volume = v]

(* C12: avg_volume is the mean of volume over exactly the              *)
(* avg_volume_lookback bars immediately preceding the latest bar (of   *)
(* those of them whose volume is a number): changing the volume of the *)
(* latest bar, or of a bar older than the window, leaves it unchanged, *)
(* and changing the volume of a bar of the window changes it.          *)
C12_AvgVolumeWindow ==
    ReachedGuard =>
        LET bars == df_in.bars
            window == BarsRanked(bars, 1, AVG_VOLUME_LOOKBACK)
            valid == {k \in window : bars[k].volume # NaN}
            avg(b) == avg_volume_lookback_val(SortByTs(b))
        IN  /\ Cardinality(window) = AVG_VOLUME_LOOKBACK
            /\ out.avg_volume_50d =
                  IF valid = {} THEN NaNR
                  ELSE Norm(SumField(bars, valid, "volume"), Cardinality(valid))
            /\ \A k \in DOMAIN bars \ window :
                  \A v \in {1, 7, NaN} : avg(WithVolume(bars, k, v)) = out.avg_volume_50d
            /\ \A k \in valid :
                  avg(WithVolume(bars, k, bars[k].volume + 1)) # out.avg_volume_50d

(* a frame longer than the window: the oldest bar (volume 9) and the   *)
(* latest (volume 10) lie outside it, the mean of the window is 4      *)
C12_Witness ==
    /\ ReachedGuard /\ Len(df_in.bars) = MaxLen
    /\ \E k \in DOMAIN df_in.bars :
          df_in.bars[k].timestamp = 1 /\ df_in.bars[k].volume = 9
    /\ out.volume = 10
    /\ out.avg_volume_50d = <<4, 1>>

(* C13: period_high is the maximum high and period_low the minimum low *)
(* over exactly the lookback_period most recent bars by timestamp, the *)
(* latest included and every older bar excluded, in whatever order the *)
(* rows were handed over.                                              *)
C13_PeriodHighLowWindow ==
    ReachedGuard =>
        LET bars == df_in.bars
            window == BarsRanked(bars, 0, LOOKBACK_PERIOD - 1)
            highs == {bars[k].high : k \in window} \ {NaN}
            lows == {bars[k].low : k \in window} \ {NaN}
        IN  /\ Cardinality(window) = LOOKBACK_PERIOD
            /\ \E k \in window : bars[k].timestamp = Len(bars)
            /\ out.period_high = (IF highs = {} THEN NaN ELSE MaxOf(highs))
            /\ out.period_low = (IF lows = {} THEN NaN ELSE MinOf(lows))

(* rows handed over newest first; the oldest bar has the highest high  *)
(* and the lowest low of the frame and is outside the window           *)
C13_Witness ==
    /\ ReachedGuard /\ Len(df_in.bars) = MaxLen
    /\ df_in.bars[1].timestamp = MaxLen
    /\ df_in.bars[MaxLen].high = 33 /\ df_in.bars[MaxLen].low = 18
    /\ out.period_high = 30 /\ out.period_low = 20

(* the flag of rule n in a record, False when the record has none *)
Flag(res, n) == Get(res, "passed_rule" \o ToString(n), FALSE)

(* apply_screening went through every rule of lines 128-167 *)
AllRulesEvaluated ==
    /\ ReachedGuard /\ exc_at \in {"none", "log"}
    /\ out.metrics # <<>>

(* C14: for every evaluated instrument each rule flag is decided by    *)
(* its own condition alone, read off the metrics of the record: rule1  *)
(* iff price_drop_pct < drop_max, rule2 iff price_drop_pct > drop_min, *)
(* rule3 iff close > ema_long, rule4 iff close > min_price, rule5 iff  *)
(* vol_min < volume_ratio < vol_max, rule6 iff ema_short > ema_long,   *)
(* rule7 (when enabled) iff close <= max_price; when an exception      *)
(* stops the evaluation at rule 4, rules 1 to 3 are so decided.        *)
C14_RulesIndependent ==
    (ReachedGuard /\ out.metrics # <<>>) =>
        LET m == out.metrics
            cond(n) ==
                CASE n = 1 -> RLt(m.price_drop_pct, <<PRICE_DROP_FROM_HIGH_PERCENT_MAX, 1>>)
                  [] n = 2 -> RLt(<<PRICE_DROP_FROM_HIGH_PERCENT_MIN, 1>>, m.price_drop_pct)
                  [] n = 3 -> RLt(m.ema_50, <<m.close_price, 1>>)
                  [] n = 4 -> m.close_price > MIN_CLOSE_PRICE
                  [] n = 5 -> /\ RLt(VOLUME_SURGE_MULTIPLIER_MIN, m.volume_ratio)
                              /\ RLt(m.volume_ratio, VOLUME_SURGE_MULTIPLIER_MAX)
                  [] n = 6 -> RLt(m.ema_50, m.ema_20)
                  [] n = 7 -> m.close_price <= MAX_PRICE
        IN  /\ AllRulesEvaluated =>
                  /\ \A n \in 1..6 : Flag(out, n) <=> cond(n)
                  /\ ENABLE_MAX_PRICE_LIMIT => (Flag(out, 7) <=> cond(7))
            /\ exc_at = "rule4" => \A n \in 1..3 : Flag(out, n) <=> cond(n)

(* rules 1 and 5 failed and rules 2, 3, 4, 6 and 7 passed all the same *)
C14_Witness ==
    /\ AllRulesEvaluated /\ exc_at = "none" /\ ENABLE_MAX_PRICE_LIMIT
    /\ ~out.passed_rule1 /\ ~out.passed_rule5
    /\ out.passed_rule2 /\ out.passed_rule3 /\ out.passed_rule4
    /\ out.passed_rule6 /\ out.passed_rule7

(* C15: rule boundary values fail: price_drop_pct equal to its maximum *)
(* fails rule 1, equal to its minimum fails rule 2, volume_ratio equal *)
(* to either bound fails rule 5, close equal to ema_long fails rule 3, *)
(* close equal to min_price fails rule 4, ema_short equal to ema_long  *)
(* fails rule 6.                                                       *)
C15_BoundaryValuesFail ==
    AllRulesEvaluated =>
        LET m == out.metrics
        IN  /\ REq(m.price_drop_pct, <<PRICE_DROP_FROM_HIGH_PERCENT_MAX, 1>>)
                  => ~out.passed_rule1
            /\ REq(m.price_drop_pct, <<PRICE_DROP_FROM_HIGH_PERCENT_MIN, 1>>)
                  => ~out.passed_rule2
            /\ (\/ REq(m.volume_ratio, VOLUME_SURGE_MULTIPLIER_MIN)
                \/ REq(m.volume_ratio, VOLUME_SURGE_MULTIPLIER_MAX))
                  => ~out.passed_rule5
            /\ REq(m.ema_50, <<m.close_price, 1>>) => ~out.passed_rule3
            /\ m.close_price = MIN_CLOSE_PRICE => ~out.passed_rule4
            /\ REq(m.ema_20, m.ema_50) => ~out.passed_rule6

(* price_drop_pct is exactly 10, volume_ratio exactly 5/2, and close,  *)
(* ema_short and ema_long are equal                                    *)
C15_Witness ==
    /\ AllRulesEvaluated /\ exc_at = "none"
    /\ out.metrics.price_drop_pct = <<PRICE_DROP_FROM_HIGH_PERCENT_MAX, 1>>
    /\ out.metrics.volume_ratio = VOLUME_SURGE_MULTIPLIER_MAX
    /\ out.metrics.ema_50 = <<out.metrics.close_price, 1>>
    /\ out.metrics.ema_20 = out.metrics.ema_50

(* C16: in every record returned by apply_screening (passed,           *)
(* rule-failed, insufficient-data, data-quality and exception records  *)
(* alike) rules_passed_count is the number of true flags among the     *)
(* applicable rules.                                                   *)
C16_CountMatchesFlags ==
    (prog = "apply_screening" /\ pc = "applied" /\ out # Raised) =>
        out.rules_passed_count =
            Cardinality({n \in AppliedRules(ENABLE_MAX_PRICE_LIMIT) : Flag(out, n)})

C18_ToggleMaxPriceRule ==
    (prog = "apply_screening" /\ pc = "applied" /\ out # Raised) =>
        LET other == apply_screening(df_in, 1, ~ENABLE_MAX_PRICE_LIMIT, exc_at)
            en == IF ENABLE_MAX_PRICE_LIMIT THEN out ELSE other
            dis == IF ENABLE_MAX_PRICE_LIMIT THEN other ELSE out
        IN  /\ "passed_rule7" \in DOMAIN en
            /\ "passed_rule7" \notin DOMAIN dis
            /\ \A k \in DOMAIN dis.reason.rules : dis.reason.rules[k] # 7
            /\ TOTAL_RULES(FALSE) = 6
            /\ \A n \in 1..6 : Flag(en, n) = Flag(dis, n)
            /\ en.rules_passed_count =
                  dis.rules_passed_count + (IF en.passed_rule7 THEN 1 ELSE 0)
            /\ ~dis.failed_overall <=>
                  (dis.rules_passed_count = 6 /\ dis.reason.tag = "Passed all criteria")

(* evaluated with the rule disabled, a series with close above          *)
(* max_price passes all 6 rules                                         *)
C18_Witness ==
    /\ prog = "apply_screening" /\ pc = "applied" /\ ~ENABLE_MAX_PRICE_LIMIT
    /\ exc_at = "none"
    /\ ~out.failed_overall /\ out.rules_passed_count = 6
    /\ out.close > MAX_PRICE

(* a rule-evaluation failure, as opposed to a fetch or data failure *)
IsNearMiss(res, threshold) ==
    /\ res.failed_overall
    /\ res.rules_passed_count >= threshold
    /\ ~IsFetchFailed(res) /\ ~IsInsufficientData(res)

(* C19: the near-miss set handed to failure reporting holds exactly    *)
(* the results with overall pass false and rules_passed_count at least *)
(* total_rules - 1 (the caller passes no threshold); results that      *)
(* passed and results whose reason is a fetch or data-quality failure  *)
(* are never in it.                                                    *)
C19_NearMissSet ==
    (prog = "run_screener" /\ pc \in {"reported", "notified"}) =>
        LET near(res) == IsNearMiss(res, TOTAL_RULES(ENABLE_MAX_PRICE_LIMIT) - 1)
        IN  failure_report.failed_stocks = SelectSeq(all_screening_results, near)

(* C20: the passed set built by run_screener holds exactly the          *)
(* collected results whose failed_overall is false, in their order:     *)
(* every such result is in it, and no rule failure, fetch failure,      *)
(* insufficient-data record or screening-error placeholder is.          *)
C20_PassedSet ==
    (prog = "run_screener" /\ pc \in {"aggregated", "reported", "notified"}) =>
        /\ \A k \in DOMAIN all_screening_results :
              LET res == all_screening_results[k]
              IN  (\E j \in DOMAIN shortlisted_stocks : shortlisted_stocks[j] = res)
                     <=> IsPassed(res)
        /\ \A j \in DOMAIN shortlisted_stocks :
              /\ IsPassed(shortlisted_stocks[j])
              /\ shortlisted_stocks[j].reason.tag = "Passed all criteria"
              /\ \E k \in DOMAIN all_screening_results :
                    all_screening_results[k] = shortlisted_stocks[j]
        /\ Len(shortlisted_stocks) =
              Cardinality({k \in DOMAIN all_screening_results :
                              IsPassed(all_screening_results[k])})

(* the first instrument passed, the second got the screening-error     *)
(* placeholder, and only the first is in the passed set                *)
C20_Witness ==
    /\ prog = "run_screener" /\ pc = "aggregated"
    /\ Len(all_screening_results) = 2 /\ Len(shortlisted_stocks) = 1
    /\ shortlisted_stocks[1].symbol = 1
    /\ all_screening_results[2].reason.tag = "Screening Error"

(* the record comes from an instrument whose rules were evaluated: it *)
(* passed, or failed on rules                                         *)
IsEvaluated(res) == IsPassed(res) \/ IsFailed(res)

(* C21: the per-rule failure tally of the failure report has one       *)
(* counter per applicable rule (6, or 7 with the max-price rule), and  *)
(* counter n is the number of evaluated instruments whose flag of rule *)
(* n is false; instruments never evaluated (fetch failure,             *)
(* insufficient or invalid data) add to no counter.                    *)
C21_RuleFailureTally ==
    (prog = "run_screener" /\ pc \in {"reported", "notified"}) =>
        /\ DOMAIN failure_report.rule_failures = 1..TOTAL_RULES(ENABLE_MAX_PRICE_LIMIT)
        /\ \A n \in DOMAIN failure_report.rule_failures :
              failure_report.rule_failures[n] =
                 Cardinality({k \in DOMAIN all_screening_results :
                                 /\ IsEvaluated(all_screening_results[k])
                                 /\ ~Flag(all_screening_results[k], n)})

(* the two EMA periods are loaded and the short one is not the shorter *)
MalformedSettings ==
    /\ {"ema_period_short", "ema_period_long"} \subseteq DOMAIN settings
    /\ settings.ema_period_short >= settings.ema_period_long

(* C22: a rule configuration with ema_period_short >= ema_period_long  *)
(* is rejected at process start: the process stops with a fatal error, *)
(* it never enters run_screener and no instrument is fetched.          *)
C22_MalformedConfigFatal ==
    MalformedSettings =>
        /\ pc \in {"config_loaded", "fatal"}
        /\ call.nreq = 0

(* C23: aggregation always completes and yields a passed set and a    *)
(* near-miss set, each possibly empty: whatever the threshold, a list  *)
(* that is empty after the filtering is reported like any other and    *)
(* generate_failure_report raises no error.                            *)
C23_AggregationNeverRaises ==
    (prog = "aggregate" /\ pc # "input") =>
        /\ pc = "reported"
        /\ ~failure_report.raised

(* the orders a list of n results can be collected in *)
Perms(n) == {f \in [1..n -> 1..n] : \A a, b \in 1..n : f[a] = f[b] => a = b}

Permuted(sq, f) == [k \in 1..Len(sq) |-> sq[f[k]]]

(* the elements of a list with their multiplicities *)
BagOf(sq) ==
    [r \in {sq[k] : k \in DOMAIN sq} |-> Cardinality({k \in DOMAIN sq : sq[k] = r})]

(* C24: aggregation is commutative over completed results: collected   *)
(* in any other order, the same results give the same passed set, the  *)
(* same set handed to the failure report (under the same threshold)    *)
(* and the same per-rule failure counts and totals.                    *)
C24_AggregationCommutative ==
    (prog = "aggregate" /\ pc # "input") =>
        \A f \in Perms(Len(all_screening_results)) :
            LET q == Permuted(all_screening_results, f)
                r == generate_failure_report(q, failure_report.min_rules_passed, TRUE)
            IN  /\ BagOf(Shortlist(q)) = BagOf(shortlisted_stocks)
                /\ BagOf(r.failed_stocks) = BagOf(failure_report.failed_stocks)
                /\ r.rule_failures = failure_report.rule_failures
                /\ r.total_failed = failure_report.total_failed
                /\ r.almost_passed = failure_report.almost_passed
                /\ r.raised = failure_report.raised

(* a rule failure collected before a pass, aggregated under a          *)
(* threshold that keeps both: the other order exists and differs       *)
C24_Witness ==
    /\ prog = "aggregate" /\ pc = "reported"
    /\ Len(all_screening_results) = 2
    /\ IsFailed(all_screening_results[1]) /\ IsPassed(all_screening_results[2])
    /\ failure_report.min_rules_passed = 1
    /\ Len(failure_report.failed_stocks) = 2
    /\ Len(shortlisted_stocks) = 1
    /\ failure_report.rule_failures[1] + failure_report.rule_failures[2]
         + failure_report.rule_failures[3] + failure_report.rule_failures[4] > 0

(* the invocations of fetch_historical_data made by the pool's workers *)
(* that have not returned                                              *)
WorkerCalls == {k \in DOMAIN tasks : tasks[k].st = "running"}

(* a step of the pool in which the work item k changes *)
Changed(k) == tasks'[k] # tasks[k]

(* C25: concurrent invocations of fetch_historical_data are            *)
(* independent under every interleaving.  The state of an invocation   *)
(* is determined by the responses to its own requests: it has made one *)
(* request per response, and two invocations that have seen the same   *)
(* responses and stand at the same point have the same attempt number, *)
(* delays and log.  A step of one invocation changes no other work     *)
(* item, an invocation ends only on the response to its own request or *)
(* when its own retries are used up, and once the pool runs the        *)
(* module-level access token is not written.                           *)
C25_InvocationsIndependent ==
    /\ [](prog = "generate_csv_report" =>
            /\ \A k \in WorkerCalls :
                  /\ tasks[k].call.nreq = Len(tasks[k].call.resps)
                  /\ tasks[k].call.attempt <= tasks[k].call.nreq
            /\ \A j, k \in WorkerCalls :
                  (/\ tasks[j].call.resps = tasks[k].call.resps
                   /\ tasks[j].call.pc = tasks[k].call.pc)
                     => tasks[j].call = tasks[k].call)
    /\ [][(prog = "generate_csv_report" /\ pc = "pool") =>
            /\ access_token' = access_token
            /\ call' = call
            /\ \A j, k \in DOMAIN tasks : (Changed(j) /\ Changed(k)) => j = k
            /\ \A k \in DOMAIN tasks :
                  (tasks[k].st = "running" /\ tasks'[k].st = "done") =>
                      \/ tasks[k].call.pc = "request"
                      \/ /\ tasks[k].call.pc = "sleep"
                         /\ tasks[k].call.attempt + 1 = max_retries]_vars

(* three invocations in flight together, each at a different point of  *)
(* its own retries: one asleep after its second 429, one about to      *)
(* retry after its first, one that has made no request yet             *)
C25_Witness ==
    /\ prog = "generate_csv_report" /\ pc = "pool" /\ access_token
    /\ \E j, k, l \in WorkerCalls :
          /\ tasks[j].call.pc = "sleep" /\ tasks[j].call.nreq = 2
          /\ tasks[k].call.pc = "request" /\ tasks[k].call.attempt = 1
          /\ tasks[l].call.nreq = 0

(* the rules of the record whose flag is false, in rule-number order *)
FalseFlags(res, enable) ==
    LET failed(n) == n \in AppliedRules(enable) /\ ~Flag(res, n)
    IN  SelectSeq(<<1, 2, 3, 4, 5, 6, 7>>, failed)

C27_SleepThenRetry ==
    \A c \in AllCalls :
        /\ c.pc = "sleep" => c.attempt + 1 < max_retries
        /\ c.pc \in {"returned", "raised"} => Len(c.sleeps) < c.nreq

(* C28: when generate_failure_report has written the failure analysis  *)
(* report, run_screener passes that report's filename to               *)
(* send_discord_notification; the filename passed is None only if the  *)
(* generation failed.                                                  *)
C28_FailureReportAttached ==
    (prog = "run_screener" /\ pc = "notified") =>
        /\ failure_report.written =>
              notification.failure_report_filename = temp_failure_filename
        /\ notification.failure_report_filename = None => ~failure_report.written

(* the work items whose future was yielded by as_completed *)
Collected == {k \in DOMAIN tasks : tasks[k].st = "collected"}

(* C29: in generate_csv_report, under every interleaving of the pool's *)
(* workers, each submitted stock is accounted for exactly once: the    *)
(* collected rows plus the error counter equal the number of futures   *)
(* yielded so far and, once the pool is drained, the number of stocks  *)
(* submitted; no stock has two rows and every row is of a yielded      *)
(* stock; a failure inside one task never ends the collection, which   *)
(* can always go on until every stock is collected.                    *)
C29_EveryStockAccountedOnce ==
    prog = "generate_csv_report" =>
        /\ pc \in {"start", "exit", "pool", "drained"}
        /\ pc \in {"pool", "drained"} =>
              /\ Len(tasks) = total_stocks
              /\ Len(all_metrics) + fetch_errors = Cardinality(Collected)
              /\ \A a, b \in DOMAIN all_metrics :
                    all_metrics[a].symbol = all_metrics[b].symbol => a = b
              /\ \A a \in DOMAIN all_metrics : all_metrics[a].symbol \in Collected
        /\ (pc = "pool" /\ Collected # DOMAIN tasks) =>
              \/ \E k \in DOMAIN tasks : tasks[k].st \in {"running", "done"}
              \/ Queued # {} /\ WorkerFree
        /\ pc = "drained" =>
              /\ Collected = DOMAIN tasks
              /\ Len(all_metrics) + fetch_errors = total_stocks

(* the pool is drained; the row of a later stock was collected before  *)
(* the row of an earlier one, and one stock in between gave no row     *)
C29_Witness ==
    /\ prog = "generate_csv_report" /\ pc = "drained"
    /\ total_stocks = 3 /\ fetch_errors = 1
    /\ Len(all_metrics) = 2
    /\ all_metrics[1].symbol = 3 /\ all_metrics[2].symbol = 1

(* the positions of run_screener inside its screening loop *)
InLoop == pc \in {"loop", "fetch", "screen", "pace"}

(* C30: provided every upstream request is answered, by a response or  *)
(* by an error, every invocation of fetch_historical_data makes at     *)
(* most 3 requests and ends, whatever the responses; the loop of       *)
(* run_screener processes one instrument after the other, each once,   *)
(* and the run leaves the loop for good, whatever the outcomes.        *)
C30_Terminates ==
    /\ [](\A c \in AllCalls : c.nreq <= max_retries /\ c.attempt <= max_retries)
    /\ [](prog = "run_screener" /\ InLoop =>
             /\ i <= total_stocks + 1
             /\ Len(hist) = (IF pc = "pace" THEN i ELSE i - 1))
    /\ ((prog = "run_screener" /\ pc = "fetch") ~> (pc = "screen"))
    /\ <>[](prog = "run_screener" => ~InLoop /\ pc # "start")

(* the run is over its loop after two instruments: the fetch of the    *)
(* first raised, the fetch of the second used up its three requests    *)
C30_Witness ==
    /\ prog = "run_screener" /\ ~InLoop /\ Len(hist) = 2 /\ total_stocks = 2
    /\ hist[1].fetch = "raised"
    /\ hist[2].log = "max_retries_exceeded"
    /\ call.nreq = max_retries

====
